---------------------------- MODULE Spec2Model ----------------------------
(***************************************************************************)
(* Model of src/types.ts: the App component's frame loop (predict), its    *)
(* thumbs-up classifier, the per-slot cooldown gate, the bubble live set   *)
(* and the per-bubble expiry timers.                                       *)
(*                                                                         *)
(* Time is an integer clock whose unit is half the spawn cooldown.         *)
(* Landmark coordinates are integers k standing for the normalised         *)
(* coordinate k / GridDen.                                                 *)
(* Arrays keep the source's 0-based indices through At(seq, k).            *)
(***************************************************************************)
EXTENDS Integers, Sequences, FiniteSets, TLC

(***************************************************************************)
(* Program constants.  SPAWN_COOLDOWN, BUBBLE_LIFETIME and                 *)
(* SARCASTIC_QUOTES are imported from ./constants (src/types.ts:27), which *)
(* is not among the sources: the values are stand-ins, with the lifetime   *)
(* half the cooldown.                                                      *)
(***************************************************************************)
SPAWN_COOLDOWN == 2

BUBBLE_LIFETIME == 1

SARCASTIC_QUOTES == <<"q0", "q1", "q2">>

NumHands == 2

CanvasW == 8

CanvasH == 4

(***************************************************************************)
(* Bounds of the model.  MaxLate and MaxHeldLate bound how long after its   *)
(* due instant a setTimeout callback may still be pending: the program     *)
(* itself only has that it never runs before its delay has elapsed.        *)
(***************************************************************************)
MaxTime == 6

RandDen == 2

GridDen == 4

MaxHeldTime == 10

ThumbMaxY == 2

MaxLate == 1

MaxHeldLate == 2

VARIABLES
    clock,             \* performance.now(), and the timers' clock
    cameraActive,      \* the loop has been started (useEffect, line 184)
    mounted,           \* the App component is mounted (its refs are attached)
    rafPending,        \* number of scheduled requestAnimationFrame(predict)
    uncaught,          \* predict ended with an uncaught TypeError
    lastSpawnTime,     \* lastSpawnTimeRef.current, slot k at At(_, k)
    quoteIndex,        \* quoteIndexRef.current
    bubbles,           \* the bubbles state (live set), in order
    timers,            \* pending setTimeout callbacks, in creation order
    activeHandsCount,  \* the activeHandsCount state
    nextSerial,        \* history: number of Bubble objects created so far
    frame,             \* history: the last run of predict at this instant
    trigLog,           \* history: per slot, the times of its triggers
    spawnLog,          \* history: the texts of the spawned bubbles, in order
    lastSpawnObs,      \* history: the live set around this instant's last spawn
    lastExpiry         \* history: what this instant's last expiry removed

vars == <<clock, cameraActive, mounted, rafPending, uncaught, lastSpawnTime, quoteIndex,
          bubbles, timers, activeHandsCount, nextSerial, frame, trigLog,
          spawnLog, lastSpawnObs, lastExpiry>>

----------------------------------------------------------------------------
(* Helpers *)

At(s, k) == s[k + 1]

Defined(s, k) == k < Len(s)

SetAt(s, k, v) == [s EXCEPT ![k + 1] = v]

\* removal through indexOf and splice: an absent id gives index -1, and
\* splice(-1, 1) takes the last element
Filter_spliceIndex(s, id) ==
    LET hits == {i \in 1..Len(s) : s[i].id = id} IN
    IF s = <<>> THEN <<>>
    ELSE IF hits = {} THEN SubSeq(s, 1, Len(s) - 1)
    ELSE LET i == CHOOSE h \in hits : \A g \in hits : h <= g IN
         SubSeq(s, 1, i - 1) \o SubSeq(s, i + 1, Len(s))

RECURSIVE Filter(_, _)
Filter(s, id) ==
    IF s = <<>> THEN <<>>
    ELSE IF Head(s).id # id THEN <<Head(s)>> \o Filter(Tail(s), id)
         ELSE Filter(Tail(s), id)

Ids(s) == {s[i].id : i \in 1..Len(s)}

Serials(s) == {s[i].serial : i \in 1..Len(s)}

----------------------------------------------------------------------------
(* Math.random() = k / RandDen, and what the code derives from it *)

Rand == 0..(RandDen - 1)

RECURSIVE Base36Digits(_, _, _)
Base36Digits(num, den, n) ==
    IF n = 0 \/ num = 0 THEN <<>>
    ELSE <<(num * 36) \div den>> \o Base36Digits((num * 36) % den, den, n - 1)

\* Math.random().toString(36).substr(2, 9): the first nine base-36 digits
\* of the fraction ("" for 0)
RandomId(k) == Base36Digits(k, RandDen, 9)

\* (Math.random() - 0.5) * 200 and (Math.random() - 0.5) * 10
DriftX(k) == (k * 200) \div RandDen - 100

Rotation(k) == (k * 10) \div RandDen - 5

\* the three independent draws of one spawn: id, driftX, rotation
Draws == Rand \X Rand \X Rand

----------------------------------------------------------------------------
(* Landmark sets *)

ThumbIdx == {2, 3, 4}

TipIdx == {8, 12, 16, 20}

MidIdx == {6, 10, 14, 18}

\* a hand of n points whose thumb chain (2,3,4) has the heights ty and whose
\* finger k has tip height tip[k] and mid-joint height mid[k]
MkHand(n, x, ty, tip, mid) ==
    [i \in 1..n |->
        LET k == i - 1 IN
        [x |-> x,
         y |-> CASE k \in ThumbIdx -> ty[k - 1]
                 [] k \in TipIdx -> tip[k \div 4 - 1]
                 [] k \in MidIdx -> mid[(k - 2) \div 4]
                 [] OTHER -> 2]]

PoseUp == MkHand(21, 1, <<3, 2, 1>>, <<3, 3, 3, 3>>, <<2, 2, 2, 2>>)

PoseOpen == MkHand(21, 3, <<3, 2, 1>>, <<1, 1, 1, 1>>, <<2, 2, 2, 2>>)

PoseShort == MkHand(20, 2, <<3, 2, 1>>, <<3, 3, 3, 3>>, <<2, 2, 2, 2>>)

Poses == {PoseUp, PoseOpen, PoseShort}

\* detectForVideo(...).landmarks: zero to numHands hands
FrameInputs == UNION {[1..n -> Poses] : n \in 0..NumHands}

----------------------------------------------------------------------------
(* predict, per hand *)

\* scaledLandmarks (lines 109-112)
Scaled(lm) ==
    [i \in 1..Len(lm) |->
        [x |-> ((GridDen - lm[i].x) * CanvasW) \div GridDen,
         y |-> (lm[i].y * CanvasH) \div GridDen]]

\* lines 115-123 read .y of these landmarks; reading .y of undefined throws
ClassifierReads == {4, 3, 2, 8, 6, 12, 10, 16, 14, 20, 18}

ReadThrows(lm) == \E k \in ClassifierReads : ~Defined(lm, k)

isThumbExtendedUp(lm) ==
    At(lm, 4).y < At(lm, 3).y /\ At(lm, 3).y < At(lm, 2).y

\* a bug: a tie counts as folded
isFolded_orTie(lm, tip, mid) == At(lm, tip).y >= At(lm, mid).y

isFolded(lm, tip, mid) == At(lm, tip).y > At(lm, mid).y

thumbsUpActive(lm) ==
    /\ isThumbExtendedUp(lm)
    /\ isFolded(lm, 8, 6)
    /\ isFolded(lm, 12, 10)
    /\ isFolded(lm, 16, 14)
    /\ isFolded(lm, 20, 18)

\* a bug: the gate opens when exactly the cooldown has passed
CooldownElapsed_atLeast(now, last) == now - last >= SPAWN_COOLDOWN

\* a bug: the gate re-arms only after a frame without an active hand
CooldownElapsed_afterRelease(now, last) ==
    now - last > SPAWN_COOLDOWN /\ activeHandsCount = 0

\* a bug: the gate opens one clock unit late
CooldownElapsed_late(now, last) == now - last > SPAWN_COOLDOWN + 1

\* a bug: one cooldown for the whole frame, open only when every slot's is
CooldownElapsed_anySlot(now, last) ==
    \A k \in 0..(NumHands - 1) : now - At(lastSpawnTime, k) > SPAWN_COOLDOWN

\* line 156: now - lastSpawnTimeRef.current[handIndex] > SPAWN_COOLDOWN
CooldownElapsed(now, last) == now - last > SPAWN_COOLDOWN

\* lines 158-165
NewBubble(lm, qi, serial, draw) ==
    [id |-> RandomId(draw[1]),
     text |-> At(SARCASTIC_QUOTES, qi),
     x |-> At(Scaled(lm), 4).x,
     y |-> At(Scaled(lm), 4).y,
     driftX |-> DriftX(draw[2]),
     rotation |-> Rotation(draw[3]),
     serial |-> serial]

\* a bug: the index wraps one entry early
NextQuoteIndex_wrapEarly(qi) == (qi + 1) % (Len(SARCASTIC_QUOTES) - 1)

NextQuoteIndex(qi) == (qi + 1) % Len(SARCASTIC_QUOTES)

\* the state predict works on while it walks the hands
Ctx0 ==
    [last |-> lastSpawnTime, qi |-> quoteIndex, bub |-> bubbles, tm |-> timers,
     count |-> 0, thrown |-> FALSE, serial |-> nextSerial,
     verdicts |-> <<>>, fired |-> <<>>, prev |-> <<>>, widths |-> <<>>,
     trig |-> trigLog, texts |-> spawnLog, obs |-> lastSpawnObs]

\* a trigger that appends to the live set its closure captured at the first
\* render, setBubbles([...bubbles, newBubble]), instead of to the current one
Trigger_staleClosure(c, lm, handIndex, now, draw) ==
    LET nb == NewBubble(lm, c.qi, c.serial + 1, draw)
        live == Append(<<>>, nb)
    IN
    [c EXCEPT !.bub = live,
              !.last = SetAt(@, handIndex, now),
              !.qi = NextQuoteIndex(@),
              !.tm = Append(@, [id |-> nb.id, due |-> now + BUBBLE_LIFETIME,
                                serial |-> nb.serial]),
              !.serial = @ + 1,
              !.fired = Append(@, TRUE),
              !.trig = SetAt(@, handIndex, Append(At(@, handIndex), now)),
              !.texts = Append(@, nb.text),
              !.obs = [before |-> c.bub, after |-> live]]

\* a trigger that stamps one cooldown shared by all slots
Trigger_sharedCooldown(c, lm, handIndex, now, draw) ==
    LET nb == NewBubble(lm, c.qi, c.serial + 1, draw)
        live == Append(c.bub, nb)
    IN
    [c EXCEPT !.bub = live,
              !.last = [k \in DOMAIN @ |-> now],
              !.qi = NextQuoteIndex(@),
              !.tm = Append(@, [id |-> nb.id, due |-> now + BUBBLE_LIFETIME,
                                serial |-> nb.serial]),
              !.serial = @ + 1,
              !.fired = Append(@, TRUE),
              !.trig = SetAt(@, handIndex, Append(At(@, handIndex), now)),
              !.texts = Append(@, nb.text),
              !.obs = [before |-> c.bub, after |-> live]]

\* lines 156-174: the trigger
Trigger(c, lm, handIndex, now, draw) ==
    LET nb == NewBubble(lm, c.qi, c.serial + 1, draw)
        live == Append(c.bub, nb)
    IN
    [c EXCEPT !.bub = live,
              !.last = SetAt(@, handIndex, now),
              !.qi = NextQuoteIndex(@),
              !.tm = Append(@, [id |-> nb.id, due |-> now + BUBBLE_LIFETIME,
                                serial |-> nb.serial]),
              !.serial = @ + 1,
              !.fired = Append(@, TRUE),
              !.trig = SetAt(@, handIndex, Append(At(@, handIndex), now)),
              !.texts = Append(@, nb.text),
              !.obs = [before |-> c.bub, after |-> live]]

\* ctx.lineWidth of a hand's skeleton (line 133)
LineWidth(active) == IF active THEN 8 ELSE 3

\* the body of the forEach callback (lines 108-175) for one hand
ProcessHand(c, lm, handIndex, now, draw) ==
    IF ReadThrows(lm) THEN [c EXCEPT !.thrown = TRUE]
    ELSE
        LET active == thumbsUpActive(lm)
            c1 == [c EXCEPT !.count = IF active THEN @ + 1 ELSE @,
                            !.verdicts = Append(@, active),
                            !.widths = Append(@, LineWidth(active)),
                            !.prev = Append(@, At(c.last, handIndex))]
        IN  IF active /\ CooldownElapsed(now, At(c.last, handIndex))
            THEN Trigger(c1, lm, handIndex, now, draw)
            ELSE [c1 EXCEPT !.fired = Append(@, FALSE)]

\* results.landmarks.forEach (line 108): an exception ends the walk
RECURSIVE ForEachHand(_, _, _, _, _)
ForEachHand(c, hands, handIndex, now, draws) ==
    IF c.thrown \/ ~Defined(hands, handIndex) THEN c
    ELSE ForEachHand(ProcessHand(c, At(hands, handIndex), handIndex, now,
                                 At(draws, handIndex)),
                     hands, handIndex + 1, now, draws)

----------------------------------------------------------------------------
(* The state *)

NoFrame == [t |-> -1, kind |-> "none", hands |-> <<>>, verdicts |-> <<>>,
            prev |-> <<>>, fired |-> <<>>, widths |-> <<>>]

NoSpawnObs == [before |-> <<>>, after |-> <<>>]

NoExpiry ==
    [by |-> 0, id |-> <<>>, removed |-> {}, before |-> <<>>, after |-> <<>>]

Init ==
    /\ clock = 0
    /\ cameraActive = FALSE
    /\ mounted = TRUE
    /\ rafPending = 0
    /\ uncaught = FALSE
    /\ lastSpawnTime = <<0, 0>>
    /\ quoteIndex = 0
    /\ bubbles = <<>>
    /\ timers = <<>>
    /\ activeHandsCount = 0
    /\ nextSerial = 0
    /\ frame = NoFrame
    /\ trigLog = <<<<>>, <<>>>>
    /\ spawnLog = <<>>
    /\ lastSpawnObs = NoSpawnObs
    /\ lastExpiry = NoExpiry

\* a guard that also clears the reported count when it skips
SkipCycle_clearsCount(pending) ==
    /\ rafPending' = pending + 1
    /\ frame' = [NoFrame EXCEPT !.t = clock, !.kind = "skipped"]
    /\ activeHandsCount' = 0
    /\ UNCHANGED <<uncaught, lastSpawnTime, quoteIndex, bubbles, timers,
                   nextSerial, trigLog, spawnLog, lastSpawnObs>>

\* the guard of lines 92-95 taken: reschedule and return
SkipCycle(pending) ==
    /\ rafPending' = pending + 1
    /\ frame' = [NoFrame EXCEPT !.t = clock, !.kind = "skipped"]
    /\ UNCHANGED <<uncaught, lastSpawnTime, quoteIndex, bubbles, timers,
                   activeHandsCount, nextSerial, trigLog, spawnLog,
                   lastSpawnObs>>

\* predict (lines 91-181), entered with `pending` callbacks still scheduled
PredictBody(pending, ready, surface, hands, draws) ==
    IF ~ready
    THEN SkipCycle(pending)
    ELSE IF ~surface
    THEN \* line 102 fails: line 180 only
         /\ rafPending' = pending + 1
         /\ frame' = [NoFrame EXCEPT !.t = clock, !.kind = "nosurface"]
         /\ UNCHANGED <<uncaught, lastSpawnTime, quoteIndex, bubbles, timers,
                        activeHandsCount, nextSerial, trigLog, spawnLog,
                        lastSpawnObs>>
    ELSE
        \E c \in {ForEachHand(Ctx0, hands, 0, clock, draws)} :
        /\ lastSpawnTime' = c.last
        /\ quoteIndex' = c.qi
        /\ bubbles' = c.bub
        /\ timers' = c.tm
        /\ nextSerial' = c.serial
        /\ trigLog' = c.trig
        /\ spawnLog' = c.texts
        /\ lastSpawnObs' = c.obs
        /\ frame' = [t |-> clock,
                     kind |-> IF c.thrown THEN "thrown" ELSE "processed",
                     hands |-> hands, verdicts |-> c.verdicts,
                     prev |-> c.prev, fired |-> c.fired, widths |-> c.widths]
        /\ IF c.thrown
           THEN \* the TypeError leaves predict: lines 177 and 180 are not run
                /\ uncaught' = TRUE
                /\ rafPending' = pending
                /\ UNCHANGED activeHandsCount
           ELSE /\ activeHandsCount' = c.count
                /\ rafPending' = pending + 1
                /\ UNCHANGED uncaught

\* the hand at handIndex reaches line 159 and calls Math.random()
Spawns(hands, handIndex) ==
    /\ \A k \in 0..handIndex : ~ReadThrows(At(hands, k))
    /\ thumbsUpActive(At(hands, handIndex))
    /\ CooldownElapsed(clock, At(lastSpawnTime, handIndex))

\* the Math.random() draws a hand makes: three if it spawns, else none (it
\* then carries a placeholder)
DrawsFor(hands, handIndex) ==
    IF Spawns(hands, handIndex) THEN Draws ELSE {<<0, 0, RandDen - 1>>}

\* the draws of one frame, per hand (numHands is 2)
DrawSeqs(hands) ==
    CASE Len(hands) = 0 -> {<<>>}
      [] Len(hands) = 1 -> {<<a>> : a \in DrawsFor(hands, 0)}
      [] OTHER -> {<<a, b>> : a \in DrawsFor(hands, 0), b \in DrawsFor(hands, 1)}

\* an effect that calls predict again although the loop is already running
StartLoop_again ==
    /\ mounted
    /\ cameraActive' = TRUE
    /\ \/ PredictBody(rafPending, FALSE, TRUE, <<>>, <<>>)
       \/ PredictBody(rafPending, TRUE, FALSE, <<>>, <<>>)
       \/ \E hands \in FrameInputs : \E draws \in DrawSeqs(hands) :
             PredictBody(rafPending, TRUE, TRUE, hands, draws)
    /\ UNCHANGED <<clock, mounted, lastExpiry>>

\* useEffect on cameraActive (lines 183-191): the first, direct call
StartLoop ==
    /\ mounted
    /\ ~cameraActive
    /\ cameraActive' = TRUE
    /\ \/ PredictBody(rafPending, FALSE, TRUE, <<>>, <<>>)
       \/ PredictBody(rafPending, TRUE, FALSE, <<>>, <<>>)
       \/ \E hands \in FrameInputs : \E draws \in DrawSeqs(hands) :
             PredictBody(rafPending, TRUE, TRUE, hands, draws)
    /\ UNCHANGED <<clock, mounted, lastExpiry>>

\* a requestAnimationFrame callback runs predict; once the component is
\* unmounted videoRef.current is null and the guard of line 92 is taken
Predict ==
    /\ rafPending > 0
    /\ \/ PredictBody(rafPending - 1, FALSE, TRUE, <<>>, <<>>)
       \/ /\ mounted
          /\ PredictBody(rafPending - 1, TRUE, FALSE, <<>>, <<>>)
       \/ /\ mounted
          /\ \E hands \in FrameInputs : \E draws \in DrawSeqs(hands) :
                PredictBody(rafPending - 1, TRUE, TRUE, hands, draws)
    /\ UNCHANGED <<clock, cameraActive, mounted, lastExpiry>>

\* the setTimeout callback of lines 171-173, at or after its due instant;
\* timers of one delay fire in creation order.  React drops a state update of an unmounted component.
Expire ==
    /\ timers # <<>>
    /\ Head(timers).due <= clock
    /\ LET tm == Head(timers) IN
       /\ bubbles' = IF mounted THEN Filter(bubbles, tm.id) ELSE bubbles
       /\ timers' = Tail(timers)
       /\ lastExpiry' = [by |-> tm.serial, id |-> tm.id,
                         removed |-> Serials(bubbles) \ Serials(bubbles'),
                         before |-> bubbles, after |-> bubbles']
    /\ UNCHANGED <<clock, cameraActive, mounted, rafPending, uncaught, lastSpawnTime,
                   quoteIndex, activeHandsCount, nextSerial, frame, trigLog,
                   spawnLog, lastSpawnObs>>

\* time passes, also past the due instant of a pending timer: the
\* callback of setTimeout (line 171) runs no earlier than its delay after
\* the call, which is itself later than `now` of line 97, and may run
\* later, after frames that read a later `now`; `late` bounds how much
TickTo(bound, late) ==
    /\ clock < bound
    /\ timers # <<>> => clock < Head(timers).due + late
    /\ clock' = clock + 1
    /\ frame' = NoFrame
    /\ lastSpawnObs' = NoSpawnObs
    /\ lastExpiry' = NoExpiry
    /\ UNCHANGED <<cameraActive, mounted, rafPending, uncaught,
                   lastSpawnTime, quoteIndex, bubbles, timers,
                   activeHandsCount, nextSerial, trigLog, spawnLog>>

Tick == TickTo(MaxTime, MaxLate)

Next == StartLoop \/ Predict \/ Expire \/ Tick

Spec == Init /\ [][Next]_vars

----------------------------------------------------------------------------
(* Teardown: the component is unmounted.  None of the effects (lines 50-67, *)
(* 69-89, 183-191) returns a cleanup function, so unmounting runs no code   *)
(* of the component: the scheduled callback and the timers stay pending.    *)

Unmount ==
    /\ mounted
    /\ mounted' = FALSE
    /\ UNCHANGED <<clock, cameraActive, rafPending, uncaught, lastSpawnTime,
                   quoteIndex, bubbles, timers, activeHandsCount, nextSerial,
                   frame, trigLog, spawnLog, lastSpawnObs, lastExpiry>>

NextTeardown == StartLoop \/ Predict \/ Expire \/ Tick \/ Unmount

SpecTeardown == Init /\ [][NextTeardown]_vars

----------------------------------------------------------------------------
(* The classifier on every landmark set of a grid: one probe hand, one run *)
(* of predict on it, at an instant where the cooldown gate is open         *)

FingerHeights == {1, 2}

ProbeHands ==
    {MkHand(21, 1, ty, tip, mid) :
        ty \in [1..3 -> 0..ThumbMaxY],
        tip \in [1..4 -> FingerHeights],
        mid \in [1..4 -> FingerHeights]}

InitClassifier ==
    /\ clock = SPAWN_COOLDOWN + 1
    /\ cameraActive = FALSE
    /\ mounted = TRUE
    /\ rafPending = 0
    /\ uncaught = FALSE
    /\ lastSpawnTime = <<0, 0>>
    /\ quoteIndex = 0
    /\ bubbles = <<>>
    /\ timers = <<>>
    /\ activeHandsCount = 0
    /\ nextSerial = 0
    /\ \E h \in ProbeHands :
          frame = [NoFrame EXCEPT !.kind = "probe", !.hands = <<h>>]
    /\ trigLog = <<<<>>, <<>>>>
    /\ spawnLog = <<>>
    /\ lastSpawnObs = NoSpawnObs
    /\ lastExpiry = NoExpiry

ClassifyProbe ==
    /\ frame.kind = "probe"
    /\ ~cameraActive
    /\ cameraActive' = TRUE
    /\ \E draws \in DrawSeqs(frame.hands) :
          PredictBody(rafPending, TRUE, TRUE, frame.hands, draws)
    /\ UNCHANGED <<clock, mounted, lastExpiry>>

NextClassifier == ClassifyProbe

SpecClassifier == InitClassifier /\ [][NextClassifier]_vars

----------------------------------------------------------------------------
(* One hand held in the thumbs-up pose in every frame.  The loop may start *)
(* at any instant; frames may be sparse (SpecHeld) or run at every clock   *)
(* instant once the loop has started (SpecEveryInstant).                   *)

StartHeld ==
    /\ ~cameraActive
    /\ cameraActive' = TRUE
    /\ \E draws \in DrawSeqs(<<PoseUp>>) :
          PredictBody(rafPending, TRUE, TRUE, <<PoseUp>>, draws)
    /\ UNCHANGED <<clock, mounted, lastExpiry>>

PredictHeld ==
    /\ rafPending > 0
    /\ \E draws \in DrawSeqs(<<PoseUp>>) :
          PredictBody(rafPending - 1, TRUE, TRUE, <<PoseUp>>, draws)
    /\ UNCHANGED <<clock, cameraActive, mounted, lastExpiry>>

TickHeld == TickTo(MaxHeldTime, MaxHeldLate)

NextHeld == StartHeld \/ PredictHeld \/ Expire \/ TickHeld

SpecHeld == Init /\ [][NextHeld]_vars

TickAfterFrame ==
    /\ cameraActive => frame.t = clock
    /\ TickTo(MaxHeldTime, MaxHeldLate)

NextEveryInstant == StartHeld \/ PredictHeld \/ Expire \/ TickAfterFrame

SpecEveryInstant == Init /\ [][NextEveryInstant]_vars

\* both hands held in the thumbs-up pose in every frame
BothHeld == <<PoseUp, PoseUp>>

StartBothHeld ==
    /\ ~cameraActive
    /\ cameraActive' = TRUE
    /\ \E draws \in DrawSeqs(BothHeld) :
          PredictBody(rafPending, TRUE, TRUE, BothHeld, draws)
    /\ UNCHANGED <<clock, mounted, lastExpiry>>

PredictBothHeld ==
    /\ rafPending > 0
    /\ \E draws \in DrawSeqs(BothHeld) :
          PredictBody(rafPending - 1, TRUE, TRUE, BothHeld, draws)
    /\ UNCHANGED <<clock, cameraActive, mounted, lastExpiry>>

NextBothHeld == StartBothHeld \/ PredictBothHeld \/ Expire \/ TickHeld

SpecBothHeld == Init /\ [][NextBothHeld]_vars

----------------------------------------------------------------------------
(* Claims *)

Slots == 0..(NumHands - 1)

HandY(i, k) == At(frame.hands[i], k).y

\* C1: predict classifies a hand as gesture-active exactly when its thumb
\* tip is strictly above the thumb IP joint, that strictly above the thumb
\* base, and each of the four fingertips is strictly below its mid joint.
C1_ClassifierIff ==
    frame.kind = "processed" =>
        \A i \in 1..Len(frame.hands) :
            frame.verdicts[i] =
                (/\ HandY(i, 4) < HandY(i, 3)
                 /\ HandY(i, 3) < HandY(i, 2)
                 /\ HandY(i, 8) > HandY(i, 6)
                 /\ HandY(i, 12) > HandY(i, 10)
                 /\ HandY(i, 16) > HandY(i, 14)
                 /\ HandY(i, 20) > HandY(i, 18))

\* a probe with all seven comparisons satisfied was classified active and
\* fired a trigger
C1_Witness ==
    /\ frame.kind = "processed"
    /\ frame.verdicts = <<TRUE>>
    /\ frame.fired = <<TRUE>>

\* C2: on each slot, any two successive triggers are more than
\* SPAWN_COOLDOWN apart, and a hand fires in a frame only if it was
\* classified active in that frame and the frame's time exceeds the slot's
\* last trigger time by more than SPAWN_COOLDOWN.
C2_TriggersSpaced ==
    /\ \A s \in Slots :
          \A k \in 1..(Len(At(trigLog, s)) - 1) :
              At(trigLog, s)[k + 1] - At(trigLog, s)[k] > SPAWN_COOLDOWN
    /\ \A i \in 1..Len(frame.fired) :
          frame.fired[i] =>
              /\ frame.verdicts[i]
              /\ frame.t - frame.prev[i] > SPAWN_COOLDOWN

\* some slot has fired twice
C2_Witness == \E s \in Slots : Len(At(trigLog, s)) >= 2

\* C3: with the hand of slot 0 active in every frame (no frame ever shows it
\* inactive), every frame that runs once the cooldown has elapsed since the
\* slot's last trigger fires again: after any frame, the slot's last
\* trigger is at most SPAWN_COOLDOWN before that frame.
C3_HeldRefires ==
    frame.kind = "processed" =>
        /\ frame.verdicts = <<TRUE>>
        /\ frame.t - At(lastSpawnTime, 0) <= SPAWN_COOLDOWN

\* the held hand has fired, and fired again without ever being released
C3_Witness == Len(At(trigLog, 0)) >= 2 /\ frame.fired = <<TRUE>>

\* C4 as stated: with a frame at every clock instant and the hand held
\* active, the k-th re-fire is exactly k * SPAWN_COOLDOWN after the first
\* trigger.
C4_RefireAtMultiplesOfCooldown ==
    \A k \in 1..Len(At(trigLog, 0)) :
        At(trigLog, 0)[k] = At(trigLog, 0)[1] + (k - 1) * SPAWN_COOLDOWN

\* C4 as amended: with a frame at every clock instant and the hand held
\* active, each re-fire is at the first instant later than the previous
\* trigger by more than SPAWN_COOLDOWN: the k-th re-fire is
\* k * (SPAWN_COOLDOWN + 1) after the first trigger, however many frames run
\* in between.
C4_RefireAtFirstInstantPastCooldown ==
    \A k \in 1..Len(At(trigLog, 0)) :
        At(trigLog, 0)[k] = At(trigLog, 0)[1] + (k - 1) * (SPAWN_COOLDOWN + 1)

\* the held hand has fired three times, the first time after an idle start
C4_Witness ==
    /\ Len(At(trigLog, 0)) >= 3
    /\ At(trigLog, 0)[1] > SPAWN_COOLDOWN + 1

\* C5: from the initial state, a frame at time 0 with the thumbs-up pose on
\* slot 0 spawns one message anchored at the scaled thumb tip; a frame
\* within the cooldown (time 1) spawns none; a frame past the cooldown
\* (time SPAWN_COOLDOWN + 1) spawns the second message.
C5_Scenario ==
    /\ (frame.kind = "processed" /\ frame.t = 0) =>
          /\ At(trigLog, 0) = <<0>>
          /\ Len(bubbles) = 1
          /\ bubbles[1].x = At(Scaled(PoseUp), 4).x
          /\ bubbles[1].y = At(Scaled(PoseUp), 4).y
    /\ (frame.kind = "processed" /\ frame.t = 1
          /\ At(trigLog, 0) # <<>> /\ At(trigLog, 0)[1] = 0) =>
          At(trigLog, 0) = <<0>>
    /\ (frame.kind = "processed" /\ frame.t = SPAWN_COOLDOWN + 1
          /\ At(trigLog, 0) # <<>> /\ At(trigLog, 0)[1] = 0) =>
          At(trigLog, 0) = <<0, SPAWN_COOLDOWN + 1>>

\* C6: the ids of the live bubbles are pairwise distinct.
C6_LiveIdsDistinct ==
    \A i, j \in 1..Len(bubbles) : i # j => bubbles[i].id # bubbles[j].id

\* C7: a spawned bubble is live until its lifetime has elapsed, is not live
\* afterwards, and is removed exactly once, by its own expiry timer.
C7_LivesExactlyItsLifetime ==
    /\ \A i \in 1..Len(timers) :
          clock < timers[i].due => timers[i].serial \in Serials(bubbles)
    /\ \A i \in 1..Len(bubbles) :
          \E j \in 1..Len(timers) :
              timers[j].serial = bubbles[i].serial /\ clock <= timers[j].due
    /\ lastExpiry # NoExpiry => lastExpiry.removed = {lastExpiry.by}

\* C8: a spawn appends exactly one bubble, keeps the earlier ones unchanged
\* and in order, and the new id differs from every other id in the set.
C8_SpawnAddsOneFreshId ==
    lastSpawnObs # NoSpawnObs =>
        LET before == lastSpawnObs.before
            after == lastSpawnObs.after
        IN  /\ Len(after) = Len(before) + 1
            /\ SubSeq(after, 1, Len(before)) = before
            /\ after[Len(after)].id \notin Ids(before)

\* C9: the k-th spawn overall, from whichever hand, carries quote
\* (k - 1) mod N of the list, and the shared index always equals the number
\* of spawns so far mod N: it advances by one per spawn and on nothing else.
C9_QuotesRoundRobin ==
    LET N == Len(SARCASTIC_QUOTES) IN
    /\ \A k \in 1..Len(spawnLog) :
          spawnLog[k] = At(SARCASTIC_QUOTES, (k - 1) % N)
    /\ quoteIndex = Len(spawnLog) % N
    /\ Len(spawnLog) = nextSerial

\* N + 1 spawns have happened, from both hands
C9_Witness ==
    /\ Len(spawnLog) > Len(SARCASTIC_QUOTES)
    /\ At(trigLog, 0) # <<>>
    /\ At(trigLog, 1) # <<>>

\* C10: a frame holding a hand with fewer than 21 landmarks skips that hand,
\* classifies the other hands of the frame, and schedules the next cycle.
C10_ShortHandSkipped ==
    (frame.kind \in {"processed", "thrown"}
        /\ \E i \in 1..Len(frame.hands) : Len(frame.hands[i]) < 21) =>
        /\ ~uncaught
        /\ rafPending = 1
        /\ Len(frame.verdicts) =
              Cardinality({i \in 1..Len(frame.hands) : Len(frame.hands[i]) >= 21})

----------------------------------------------------------------------------
\* C11: a cycle that finds the source not ready is skipped: it leaves the
\* cooldown slots, the quote index, the live set (and its timers) and the
\* reported active-hand count as they were, raises no error, and leaves
\* exactly one next cycle scheduled.
C11_NotReadySkips ==
    [][(frame' # frame /\ frame'.kind = "skipped") =>
          /\ UNCHANGED <<lastSpawnTime, quoteIndex, bubbles, timers,
                         activeHandsCount, uncaught>>
          /\ rafPending' = 1]_vars

\* a cycle was skipped while messages were live, a hand had been reported
\* active, and the slots and the quote index had moved
C11_Witness ==
    /\ frame.kind = "skipped"
    /\ bubbles # <<>>
    /\ activeHandsCount > 0
    /\ lastSpawnTime # <<0, 0>>
    /\ quoteIndex > 0
    /\ rafPending = 1

\* C12: teardown cancels every pending expiry timer and the pending frame
\* callback: from the teardown on no timer and no callback is pending (so
\* none fires), and nothing mutates the live set, the cooldown slots or the
\* quote index.
C12_TeardownCancels ==
    [][~mounted' =>
          /\ timers' = <<>>
          /\ rafPending' = 0
          /\ mounted \/ UNCHANGED <<bubbles, lastSpawnTime, quoteIndex>>]_vars

\* C13: after every frame that reaches the hands, the reported count equals
\* the number of hands of that frame whose classifier output is active, and
\* each classified hand's emphasis is a function of its classifier output
\* alone, whether or not the cooldown gate let it trigger.
C13_CountIsActiveHands ==
    frame.kind \in {"processed", "thrown"} =>
        /\ activeHandsCount =
              Cardinality({i \in 1..Len(frame.hands) :
                              /\ Len(frame.hands[i]) >= 21
                              /\ thumbsUpActive(frame.hands[i])})
        /\ \A i \in 1..Len(frame.verdicts) :
              frame.widths[i] = IF frame.verdicts[i] THEN 8 ELSE 3

\* C14: cycles never overlap: at every moment at most one cycle is scheduled
\* (a running cycle has consumed its callback and schedules at most one),
\* and none is scheduled before the one start of the loop.
C14_AtMostOneCycle ==
    /\ rafPending \in {0, 1}
    /\ ~cameraActive => rafPending = 0

\* the loop has run several cycles, two of them spawning, and exactly one
\* next cycle is scheduled
C14_Witness ==
    /\ cameraActive
    /\ rafPending = 1
    /\ frame.kind = "processed"
    /\ nextSerial >= 2

\* C15: the loop never ends on its own: once started, after every cycle,
\* whatever its frame contained, a next cycle is scheduled.
C15_NextCycleScheduled ==
    cameraActive => rafPending = 1

\* every id a spawn can draw
PossibleIds == {RandomId(k) : k \in Rand}

\* C16: removal by id is idempotent and safe on an absent id: on every live
\* set the program reaches, removing an id twice gives what removing it once
\* gives, removing an id that is not in the set gives the set itself, and an
\* expiry whose id is no longer live leaves the live set as it found it.
C16_RemovalIdempotent ==
    /\ \A id \in PossibleIds :
          LET once == Filter(bubbles, id)
          IN  /\ Filter(once, id) = once
              /\ id \notin Ids(bubbles) => once = bubbles
    /\ (lastExpiry.by # 0 /\ lastExpiry.id \notin Ids(lastExpiry.before)) =>
          lastExpiry.after = lastExpiry.before

\* an expiry ran on a non-empty live set that no longer held its id
C16_Witness ==
    /\ lastExpiry.by # 0
    /\ lastExpiry.id \notin Ids(lastExpiry.before)
    /\ lastExpiry.before # <<>>

\* C17: a cooldown slot changes only in a frame where the hand at its index
\* triggers, and then becomes that frame's timestamp; any other step, and a
\* trigger of the hand at the other index, leaves it unchanged.  The two
\* slots are stamped independently, both in one frame when both hands
\* trigger.
C17_SlotStampedByOwnTrigger ==
    [][\A s \in Slots :
          IF /\ frame' # frame
             /\ frame'.kind \in {"processed", "thrown"}
             /\ Defined(frame'.fired, s)
             /\ At(frame'.fired, s)
          THEN At(lastSpawnTime', s) = frame'.t
          ELSE At(lastSpawnTime', s) = At(lastSpawnTime, s)]_vars

\* both hands triggered in one earlier frame, and now the hand at index 1
\* has triggered alone: slot 1 is stamped, slot 0 keeps its earlier stamp
C17_Witness ==
    /\ \E t \in 1..MaxTime :
          /\ t \in {At(trigLog, 0)[i] : i \in 1..Len(At(trigLog, 0))}
          /\ t \in {At(trigLog, 1)[i] : i \in 1..Len(At(trigLog, 1))}
          /\ At(lastSpawnTime, 0) = t
    /\ frame.fired = <<FALSE, TRUE>>
    /\ At(lastSpawnTime, 1) = frame.t
    /\ At(lastSpawnTime, 0) < frame.t

\* the messages a trigger can build as the program's first, object identity
\* left out: for every hand and every three draws
FirstBubbles == {NewBubble(lm, 0, 0, draw) : lm \in Poses, draw \in Draws}

\* C18: interleaved spawns and removals lose no update and tear no message:
\* a spawn leaves the live set as it was with the new message appended, a
\* removal leaves exactly the messages whose id is not the expiring one, in
\* order and field for field, and every live message is a message as a
\* trigger created it.
C18_NoLostUpdate ==
    /\ lastSpawnObs # NoSpawnObs =>
          /\ Len(lastSpawnObs.after) = Len(lastSpawnObs.before) + 1
          /\ SubSeq(lastSpawnObs.after, 1, Len(lastSpawnObs.before))
                = lastSpawnObs.before
    /\ lastExpiry.by # 0 =>
          LET Keeps(b) == b.id # lastExpiry.id IN
          lastExpiry.after = SelectSeq(lastExpiry.before, Keeps)
    /\ \A i \in 1..Len(bubbles) :
          /\ [bubbles[i] EXCEPT !.serial = 0, !.text = At(SARCASTIC_QUOTES, 0)]
                \in FirstBubbles
          /\ bubbles[i].text =
                At(SARCASTIC_QUOTES,
                   (bubbles[i].serial - 1) % Len(SARCASTIC_QUOTES))

\* at one instant a timer removed a message and kept another, and a trigger
\* spawned a message into a non-empty live set
C18_Witness ==
    /\ lastExpiry.by # 0
    /\ lastExpiry.removed # {}
    /\ lastExpiry.after # <<>>
    /\ lastSpawnObs # NoSpawnObs
    /\ lastSpawnObs.before # <<>>

\* the stamp slot s carried when the frame just run read it: the time of the
\* slot's latest earlier trigger, 0 when it has none
SlotStampBefore(s) ==
    LET log == At(trigLog, s)
        n == Len(log) - (IF At(frame.fired, s) THEN 1 ELSE 0)
    IN  IF n = 0 THEN 0 ELSE log[n]

\* C19: the cooldown is kept per positional slot: the hand at index s of a
\* frame triggers exactly when it is gesture-active and the latest trigger
\* through slot s is more than the cooldown old, whatever the other slot
\* did and whichever hand held slot s before.  (The run of the claim, one
\* hand firing through both slots within the cooldown, is C19_Witness.)
C19_CooldownKeyedBySlot ==
    frame.kind \in {"processed", "thrown"} =>
        \A s \in Slots :
            Defined(frame.fired, s) =>
                (At(frame.fired, s) <=>
                    /\ At(frame.verdicts, s)
                    /\ frame.t - SlotStampBefore(s) > SPAWN_COOLDOWN)

\* the thumbs-up hand was at index 0 and triggered; in a later frame the two
\* hands come in the other order and the same hand, now at index 1, has
\* triggered again less than the cooldown after its first trigger: two
\* messages are anchored at its thumb tip
C19_Witness ==
    /\ frame.hands = <<PoseOpen, PoseUp>>
    /\ frame.fired = <<FALSE, TRUE>>
    /\ Len(At(trigLog, 0)) = 1
    /\ Len(At(trigLog, 1)) = 1
    /\ At(trigLog, 0)[1] < At(trigLog, 1)[1]
    /\ At(trigLog, 1)[1] - At(trigLog, 0)[1] < SPAWN_COOLDOWN
    /\ Len(bubbles) = 2
    /\ \A i \in 1..2 : /\ bubbles[i].x = At(Scaled(PoseUp), 4).x
                       /\ bubbles[i].y = At(Scaled(PoseUp), 4).y

\* the least integer not below a / b
CeilDiv(a, b) == (a + b - 1) \div b

\* C20: the live set is bounded: in every reachable state it holds at most
\* (number of cooldown slots) * ceil(BUBBLE_LIFETIME / SPAWN_COOLDOWN)
\* messages, for any sequence of frames.
C20_LiveSetBounded ==
    Len(bubbles) <= NumHands * CeilDiv(BUBBLE_LIFETIME, SPAWN_COOLDOWN)

=============================================================================
